---- MODULE Spec2Model ----
(***************************************************************************)
(* The gallery generator of the lab website: parseFilename,                *)
(* parseDateFromDescription, groupByCategory, groupByYearMonth, the HTML   *)
(* generators and initGallery; and the scroll-animation handler.           *)
(*                                                                         *)
(* A JavaScript string is a sequence of one-character strings, so that     *)
(* the extension regex, split('_'), toLowerCase, parseInt, slice/join and   *)
(* the date regex are computed the way the code computes them.             *)
(***************************************************************************)
EXTENDS Integers, Sequences, FiniteSets, TLC

VARIABLES
    filename,   \* argument of the exported GalleryModule.parseFilename call
    parsed,     \* what that call returned
    images,     \* the list of filenames handed to the grouping functions
    byCategory, \* outcome of groupByCategory(images)
    byYearMonth, \* outcome of groupByYearMonth(images)
    timelineHTML, \* what generateTimelineHTML made of byYearMonth
    dateArg,    \* argument of a parseDateFromDescription call
    dateReturned, \* what that call returned
    calls,      \* outcomes of the successive groupByCategory(images) calls
    engine,     \* what the engine's sort has made of each array it was given
    page,       \* the elements the page is served with, in document order
    nav,        \* the element with id gallery-nav
    container,  \* the element with id gallery-container
    libraries,  \* which of $.fancybox and AOS are loaded
    log         \* the init calls made and what they called outside the page

groupingVars == <<filename, parsed, images, byCategory, byYearMonth>>
timelineVars == <<timelineHTML>>
dateVars == <<dateArg, dateReturned>>

callVars == <<calls, engine>>
pageVars == <<page, nav, container, libraries, log>>

vars == <<groupingVars, timelineVars, dateVars, callVars, pageVars>>

-----------------------------------------------------------------------------
(* Bounds of the model *)

\* longest list of filenames handed to the grouping functions
MaxImages == 4
MaxCalls == 2
MaxPageImages == 3
MaxElements == 2
MaxInits == 3

-----------------------------------------------------------------------------
(* Characters and strings *)

UpperLetters ==
    <<"A","B","C","D","E","F","G","H","I","J","K","L","M",
      "N","O","P","Q","R","S","T","U","V","W","X","Y","Z">>

LowerLetters ==
    <<"a","b","c","d","e","f","g","h","i","j","k","l","m",
      "n","o","p","q","r","s","t","u","v","w","x","y","z">>

Digits == <<"0","1","2","3","4","5","6","7","8","9">>

Range(s) == {s[i] : i \in DOMAIN s}

IsUpper(c) == c \in Range(UpperLetters)
IsLower(c) == c \in Range(LowerLetters)
IsLetter(c) == IsUpper(c) \/ IsLower(c)
IsDigit(c) == c \in Range(Digits)
IsSpace(c) == c \in {" ", "\t", "\n"}

\* String.prototype.toLowerCase on one character
LowerChar(c) ==
    IF IsUpper(c)
    THEN LowerLetters[CHOOSE i \in DOMAIN UpperLetters : UpperLetters[i] = c]
    ELSE c

\* String.prototype.toLowerCase
toLowerCase(s) == [i \in DOMAIN s |-> LowerChar(s[i])]

DigitValue(c) == (CHOOSE i \in DOMAIN Digits : Digits[i] = c) - 1

\* s.slice(from) with 1-based from: the characters from position from on
Drop(s, from) == SubSeq(s, from, Len(s))

\* String.prototype.trim
RECURSIVE trimStart(_)
trimStart(s) ==
    IF s # <<>> /\ IsSpace(Head(s)) THEN trimStart(Tail(s)) ELSE s

RECURSIVE trimEnd(_)
trimEnd(s) ==
    IF s # <<>> /\ IsSpace(s[Len(s)])
    THEN trimEnd(SubSeq(s, 1, Len(s) - 1))
    ELSE s

trim(s) == trimEnd(trimStart(s))

\* The not-a-number value and the numbers, as the values of `order`
NaN == [nan |-> TRUE, n |-> 0]
Num(k) == [nan |-> FALSE, n |-> k]

\* the length of the longest prefix of s made of digits
RECURSIVE DigitPrefixLen(_)
DigitPrefixLen(s) ==
    IF s # <<>> /\ IsDigit(Head(s)) THEN 1 + DigitPrefixLen(Tail(s)) ELSE 0

\* the decimal value of a string of digits
RECURSIVE DecimalValue(_)
DecimalValue(s) ==
    IF s = <<>> THEN 0
    ELSE 10 * DecimalValue(SubSeq(s, 1, Len(s) - 1)) + DigitValue(s[Len(s)])

\* parseInt(s, 10): leading white space is skipped, one sign is read, then
\* the longest run of digits; with no digit there the result is NaN
parseInt(s) ==
    LET t == trimStart(s)
        signed == t # <<>> /\ Head(t) \in {"+", "-"}
        u == IF signed THEN Tail(t) ELSE t
        k == DigitPrefixLen(u)
        v == DecimalValue(SubSeq(u, 1, k))
    IN  IF k = 0 THEN NaN
        ELSE IF signed /\ Head(t) = "-" THEN Num(0 - v)
        ELSE Num(v)

\* String.prototype.split on a one-character separator
RECURSIVE split(_, _)
split(s, sep) ==
    IF \A i \in DOMAIN s : s[i] # sep THEN <<s>>
    ELSE LET i == CHOOSE j \in DOMAIN s :
                      s[j] = sep /\ \A k \in 1..(j - 1) : s[k] # sep
         IN  <<SubSeq(s, 1, i - 1)>> \o split(Drop(s, i + 1), sep)

\* Array.prototype.join on a one-character separator
RECURSIVE join(_, _)
join(parts, sep) ==
    IF parts = <<>> THEN <<>>
    ELSE IF Len(parts) = 1 THEN parts[1]
    ELSE parts[1] \o <<sep>> \o join(Tail(parts), sep)

-----------------------------------------------------------------------------
(* Names used by the code, as strings *)

conference == <<"c","o","n","f","e","r","e","n","c","e">>
activity == <<"a","c","t","i","v","i","t","y">>
lablife == <<"l","a","b","l","i","f","e">>
campus == <<"c","a","m","p","u","s">>

\* const CATEGORIES = { conference: ..., activity: ..., lablife: ..., campus: ... }
\* its own keys, in declaration order
CATEGORIES == <<conference, activity, lablife, campus>>

\* CATEGORIES and every `grouped` object are object literals, so a property
\* read on them also finds what Object.prototype provides.  Each of these
\* inherited values is a function or an object: truthy, and without a push
\* method.
ObjectPrototypeKeys ==
    { <<"c","o","n","s","t","r","u","c","t","o","r">>,
      <<"t","o","S","t","r","i","n","g">>,
      <<"v","a","l","u","e","O","f">>,
      <<"h","a","s","O","w","n","P","r","o","p","e","r","t","y">> }

\* the recognised extensions of /\.(jpg|jpeg|png|gif|webp)$/i
Extensions ==
    { <<"j","p","g">>, <<"j","p","e","g">>, <<"p","n","g">>,
      <<"g","i","f">>, <<"w","e","b","p">> }


\* the other strings the code names
underscore == "_"

\* MONTH_NAMES = ['Jan', ..., 'Dec']
MONTH_NAMES ==
    << <<"J","a","n">>, <<"F","e","b">>, <<"M","a","r">>, <<"A","p","r">>,
       <<"M","a","y">>, <<"J","u","n">>, <<"J","u","l">>, <<"A","u","g">>,
       <<"S","e","p">>, <<"O","c","t">>, <<"N","o","v">>, <<"D","e","c">> >>

\* the keys of MONTH_MAP = { 'jan': 0, ..., 'dec': 11 }; the key at position
\* i is mapped to i - 1
MONTH_MAP_KEYS ==
    << <<"j","a","n">>, <<"f","e","b">>, <<"m","a","r">>, <<"a","p","r">>,
       <<"m","a","y">>, <<"j","u","n">>, <<"j","u","l">>, <<"a","u","g">>,
       <<"s","e","p">>, <<"o","c","t">>, <<"n","o","v">>, <<"d","e","c">> >>

-----------------------------------------------------------------------------
(* parseFilename *)

\* null, the rejection value
Null == [null |-> TRUE]

\* obj[key] is truthy, for an object literal with the own keys ownKeys whose
\* own values are all objects or arrays
Truthy(ownKeys, key) == key \in ownKeys \/ key \in ObjectPrototypeKeys

\* s ends with a dot and the extension e, in any letter case
\* a variant without the i flag
EndsWithExtension_caseSensitive(s, e) ==
    /\ Len(s) >= Len(e) + 1
    /\ s[Len(s) - Len(e)] = "."
    /\ Drop(s, Len(s) - Len(e) + 1) = e

EndsWithExtension(s, e) ==
    /\ Len(s) >= Len(e) + 1
    /\ s[Len(s) - Len(e)] = "."
    /\ toLowerCase(Drop(s, Len(s) - Len(e) + 1)) = e

\* filename.replace(/\.(jpg|jpeg|png|gif|webp)$/i, '')
removeExtension(s) ==
    IF \E e \in Extensions : EndsWithExtension(s, e)
    THEN LET e == CHOOSE x \in Extensions : EndsWithExtension(s, x)
         IN  SubSeq(s, 1, Len(s) - Len(e) - 1)
    ELSE s

\* a variant that asks for two parts only
TooFewParts_two(parts) == Len(parts) < 2

\* if (parts.length < 3)
TooFewParts(parts) == Len(parts) < 3

\* a variant that keeps the third part only
descriptionOf_third(parts) == IF Len(parts) >= 3 THEN parts[3] ELSE <<>>

\* parts.slice(2).join('_')
descriptionOf(parts) == join(Drop(parts, 3), underscore)

\* if (!CATEGORIES[category])
UnknownCategory(category) == ~Truthy(Range(CATEGORIES), category)

parseFilename(f) ==
    LET nameWithoutExt == removeExtension(f)
        parts == split(nameWithoutExt, underscore)
    IN  IF TooFewParts(parts) THEN Null
        ELSE LET category == toLowerCase(parts[1])
                 order == parseInt(parts[2])
                 description == descriptionOf(parts)
             IN  IF UnknownCategory(category) THEN Null
                 ELSE [null |-> FALSE,
                       filename |-> f,
                       category |-> category,
                       order |-> order,
                       description |-> description]


-----------------------------------------------------------------------------
(* parseDateFromDescription *)

\* the characters the pattern's dot does not match
IsLineTerminator(c) == c \in {"\n"}

\* where the four digits of the year start, for a description matched up to
\* there by /^([A-Za-z]{3})\s+(\d{4})/ : three letters, white space, 4 digits
YearStarts(d) ==
    { i \in 5..(Len(d) - 3) :
        /\ \A k \in 1..3 : IsLetter(d[k])
        /\ \A k \in 4..(i - 1) : IsSpace(d[k])
        /\ \A k \in i..(i + 3) : IsDigit(d[k]) }

\* where the separator is, for /\s*-/ read after the year starting at i
DashAt(d, i) ==
    { j \in (i + 4)..Len(d) :
        /\ \A k \in (i + 4)..(j - 1) : IsSpace(d[k])
        /\ d[j] = "-" }

\* where the event may start, for /\s*(.+)$/ read after the separator at j
EventStarts(d, j) ==
    { k \in (j + 1)..Len(d) :
        /\ \A m \in (j + 1)..(k - 1) : IsSpace(d[m])
        /\ \A m \in k..Len(d) : ~IsLineTerminator(d[m]) }

Max(S) == CHOOSE x \in S : \A y \in S : y <= x

\* description.match(/^([A-Za-z]{3})\s+(\d{4})\s*-\s*(.+)$/): the three groups,
\* or null.  The white space after the separator is matched greedily, so the
\* event starts as late as a match allows.
matchDate(d) ==
    IF YearStarts(d) = {} THEN Null
    ELSE LET i == CHOOSE x \in YearStarts(d) : TRUE
         IN  IF DashAt(d, i) = {} THEN Null
             ELSE LET j == CHOOSE x \in DashAt(d, i) : TRUE
                  IN  IF EventStarts(d, j) = {} THEN Null
                      ELSE [null |-> FALSE,
                            g1 |-> SubSeq(d, 1, 3),
                            g2 |-> SubSeq(d, i, i + 3),
                            g3 |-> Drop(d, Max(EventStarts(d, j)))]

\* MONTH_MAP[monthStr] === undefined
MonthUndefined(monthStr) == monthStr \notin Range(MONTH_MAP_KEYS)

\* a variant that counts the months back from December
MonthIndex_fromDecember(monthStr) ==
    12 - (CHOOSE i \in DOMAIN MONTH_MAP_KEYS : MONTH_MAP_KEYS[i] = monthStr)

\* MONTH_MAP[monthStr], for a key of the map
MonthIndex(monthStr) ==
    (CHOOSE i \in DOMAIN MONTH_MAP_KEYS : MONTH_MAP_KEYS[i] = monthStr) - 1

parseDateFromDescription(description) ==
    LET match == matchDate(description)
    IN  IF match.null THEN Null
        ELSE LET monthStr == toLowerCase(match.g1)
                 year == parseInt(match.g2).n
                 event == trim(match.g3)
             IN  IF MonthUndefined(monthStr) THEN Null
                 ELSE [null |-> FALSE,
                       year |-> year,
                       month |-> MonthIndex(monthStr),
                       monthName |-> MONTH_NAMES[MonthIndex(monthStr) + 1],
                       event |-> event]


-----------------------------------------------------------------------------
(* Array.prototype.sort with the comparator (a, b) => a.order - b.order *)

\* a variant that subtracts the other way round
compare_descending(a, b) ==
    IF a.order.nan \/ b.order.nan THEN 0 ELSE b.order.n - a.order.n

\* a.order - b.order as the sort reads it: a NaN result counts as +0
compare(a, b) ==
    IF a.order.nan \/ b.order.nan THEN 0 ELSE a.order.n - b.order.n

Sign(x) == IF x < 0 THEN -1 ELSE IF x > 0 THEN 1 ELSE 0

\* the comparator is a consistent comparator for the elements of s, as the
\* language defines it: "compares equal" is reflexive, symmetric and
\* transitive, and "compares below" and "compares above" are transitive
ConsistentComparator(s) ==
    \A a, b, c \in Range(s) :
        /\ compare(a, a) = 0
        /\ (compare(a, b) = 0 => compare(b, a) = 0)
        /\ (Sign(compare(a, b)) = Sign(compare(b, c))
               => Sign(compare(a, c)) = Sign(compare(a, b)))

\* x put into the sorted sequence s behind everything that does not compare
\* above it
RECURSIVE InsertSorted(_, _)
InsertSorted(s, x) ==
    IF s = <<>> THEN <<x>>
    ELSE IF compare(s[Len(s)], x) <= 0 THEN Append(s, x)
    ELSE Append(InsertSorted(SubSeq(s, 1, Len(s) - 1), x), s[Len(s)])

\* the stable sort of s
RECURSIVE StableSort(_)
StableSort(s) ==
    IF s = <<>> THEN <<>>
    ELSE InsertSorted(StableSort(SubSeq(s, 1, Len(s) - 1)), s[Len(s)])

\* every rearrangement of s
Rearrangements(s) ==
    { [i \in DOMAIN s |-> s[p[i]]] : p \in Permutations(DOMAIN s) }

\* the arrays that items.sort((a, b) => a.order - b.order) may leave: the
\* stable sort when the comparator is consistent for the items, and an
\* order the engine chooses when it is not
sortByOrder(s) ==
    IF ConsistentComparator(s) THEN {StableSort(s)} ELSE Rearrangements(s)

-----------------------------------------------------------------------------
(* The filenames the model is run on *)

Name(category, order, description, ext) ==
    category \o <<underscore>> \o order \o <<underscore>> \o description \o ext

constructor == <<"c","o","n","s","t","r","u","c","t","o","r">>
weird == <<"w","e","i","r","d">>
bogus == <<"b","o","g","u","s">>
dotJpg == <<".","j","p","g">>
dotPNG == <<".","P","N","G">>
dotJpeg == <<".","j","p","e","g">>
dotTxt == <<".","t","x","t">>
augDate == <<"A","u","g"," ","2","0","2","4"," ","-"," ","L">>
janDate == <<"J","a","n"," ","2","0","2","5"," ","-"," ","W">>
sepDinner == <<"S","e","p","_","2","0","2","5","_","-","_","D","i","n","n","e","r">>

conference_02_B == Name(conference, <<"0","2">>, <<"B">>, dotJpg)
conference_01_A == Name(conference, <<"0","1">>, <<"A">>, dotJpg)
bogus_jpg == bogus \o dotJpg
weird_x_Y == Name(weird, <<"x">>, <<"Y">>, dotJpg)
conference_x_Z == Name(conference, <<"x">>, <<"Z">>, dotJpg)
Conference_01_Jan == Name(<<"C">> \o Tail(conference), <<"0","1">>, janDate, dotPNG)
constructor_01_Aug == Name(constructor, <<"0","1">>, augDate, dotJpg)
lablife_01_Aug == Name(lablife, <<"0","1">>, augDate, dotJpg)

\* the scenario of the specification's end-to-end property
ScenarioImages == <<conference_02_B, conference_01_A, bogus_jpg, weird_x_Y>>

\* the filenames the lists are made of
ListPool ==
    { conference_02_B, conference_01_A, bogus_jpg, weird_x_Y, conference_x_Z,
      Conference_01_Jan, constructor_01_Aug, lablife_01_Aug }

ImageLists == UNION { [1..n -> ListPool] : n \in 0..MaxImages }

\* the filenames parseFilename is called on alone: every first segment,
\* order, description and extension below, and the names with one or two
\* segments only
FirstSegments ==
    { conference, lablife, <<"C">> \o Tail(conference), <<"L","A","B","L","I","F","E">>,
      activity, campus, weird, constructor, <<"t","o","S","t","r","i","n","g">>,
      <<>> }
OrderSegments == { <<"0","1">>, <<"1","2">>, <<"x">>, <<>> }
Descriptions == { <<"A">>, sepDinner, augDate, <<>> }
Suffixes ==
    { dotJpg, dotPNG, dotJpeg, <<".","g","i","f">>, <<".","W","e","b","P">>,
      dotJpg \o dotPNG, dotTxt, <<>> }

ParseInputs ==
    { Name(c, o, d, e) :
          c \in FirstSegments, o \in OrderSegments,
          d \in Descriptions, e \in Suffixes }
    \cup { c \o <<underscore>> \o o \o e :
               c \in FirstSegments, o \in OrderSegments, e \in Suffixes }
    \cup { c \o e : c \in FirstSegments, e \in Suffixes }

\* the filenames the timeline lists are made of: two photos of one month
\* with their order fields against the list order, a later month of that
\* year, a month of the next year, and an undated photo
decDate == <<"D","e","c"," ","2","0","2","4"," ","-"," ","X">>
conference_02_Aug == Name(conference, <<"0","2">>, augDate, dotJpg)
campus_03_Dec == Name(campus, <<"0","3">>, decDate, dotJpg)

TimelinePool ==
    { conference_02_Aug, lablife_01_Aug, campus_03_Dec, Conference_01_Jan,
      conference_01_A }

TimelineLists == UNION { [1..n -> TimelinePool] : n \in 0..MaxImages }

\* parseFilename on every filename of the pools, computed once: the function
\* has no state, so each call in a loop over the list returns this value
parsedFilename == [f \in ListPool \cup TimelinePool |-> parseFilename(f)]

-----------------------------------------------------------------------------
(* groupByCategory *)

\* the object literal {}
EmptyObject == [k \in {} |-> <<>>]

\* a variant that makes no array before the first push
InitialGrouped_lazy == [k \in {} |-> <<>>]

\* const grouped = {}; Object.keys(CATEGORIES).forEach(cat => grouped[cat] = [])
InitialGrouped == [cat \in Range(CATEGORIES) |-> <<>>]

\* images.forEach(filename => { ... grouped[parsed.category].push(parsed) }):
\* the object after the loop, or the throw of a push on a value that is not
\* one of grouped's own arrays
RECURSIVE parseAndGroup(_, _)
parseAndGroup(grouped, imgs) ==
    IF imgs = <<>> THEN [threw |-> FALSE, grouped |-> grouped]
    ELSE LET p == parsedFilename[Head(imgs)]
         IN  IF p.null THEN parseAndGroup(grouped, Tail(imgs))
             ELSE IF p.category \in DOMAIN grouped
             THEN parseAndGroup(
                      [grouped EXCEPT ![p.category] = Append(@, p)],
                      Tail(imgs))
             ELSE [threw |-> TRUE, grouped |-> grouped]

\* Object.keys(grouped).forEach(cat => grouped[cat].sort(...)): the objects
\* the loop may leave, over the keys `keys`
RECURSIVE sortEach(_, _)
sortEach(grouped, keys) ==
    IF keys = {} THEN {EmptyObject}
    ELSE LET cat == CHOOSE k \in keys : TRUE
         IN  { (cat :> sorted) @@ rest :
                   sorted \in sortByOrder(grouped[cat]),
                   rest \in sortEach(grouped, keys \ {cat}) }

\* the outcomes of groupByCategory(imgs): the object returned, or, when a
\* push throws, the throw, with `grouped` as it was then (the caller gets
\* no object)
groupByCategory(imgs) ==
    LET r == parseAndGroup(InitialGrouped, imgs)
    IN  IF r.threw THEN {[status |-> "threw", grouped |-> r.grouped]}
        ELSE { [status |-> "returned", grouped |-> g] :
                   g \in sortEach(r.grouped, DOMAIN r.grouped) }

\* a variant whose sort may arrange an array anew each time
engineSort_anew(sorts, array) == sortByOrder(array)

\* array.sort(...) in one engine: the sort is a function of the array and
\* the comparator, so an array the engine has sorted before comes out as it
\* did then
engineSort(sorts, array) ==
    IF array \in DOMAIN sorts THEN {sorts[array]} ELSE sortByOrder(array)

\* Object.keys(grouped).forEach(cat => grouped[cat].sort(...)) in an engine
\* that has sorted the arrays of `sorts`
RECURSIVE sortEachOn(_, _, _)
sortEachOn(sorts, grouped, keys) ==
    IF keys = {} THEN {EmptyObject}
    ELSE LET cat == CHOOSE k \in keys : TRUE
         IN  { (cat :> sorted) @@ rest :
                   sorted \in engineSort(sorts, grouped[cat]),
                   rest \in sortEachOn(sorts, grouped, keys \ {cat}) }

\* the outcomes of groupByCategory(imgs) in that engine, each with the
\* arrays the engine has sorted afterwards
groupByCategoryOn(sorts, imgs) ==
    LET r == parseAndGroup(InitialGrouped, imgs)
        arrays == { r.grouped[cat] : cat \in DOMAIN r.grouped }
    IN  IF r.threw
        THEN {[status |-> "threw", grouped |-> r.grouped, engine |-> sorts]}
        ELSE { [status |-> "returned", grouped |-> g,
                engine |->
                    [a \in DOMAIN sorts \cup arrays |->
                        IF a \in DOMAIN sorts THEN sorts[a]
                        ELSE g[CHOOSE cat \in DOMAIN g : r.grouped[cat] = a]]] :
                   g \in sortEachOn(sorts, r.grouped, DOMAIN r.grouped) }

-----------------------------------------------------------------------------
(* groupByYearMonth *)

\* grouped[year][month].push({...parsed, dateInfo}), the two objects made
\* first where they are missing
pushEntry(grouped, year, month, entry) ==
    LET g1 == IF year \in DOMAIN grouped THEN grouped
              ELSE (year :> EmptyObject) @@ grouped
        months == IF month \in DOMAIN g1[year] THEN g1[year]
                  ELSE (month :> <<>>) @@ g1[year]
    IN  [g1 EXCEPT ![year] = [months EXCEPT ![month] = Append(@, entry)]]

RECURSIVE groupInto(_, _)
groupInto(grouped, imgs) ==
    IF imgs = <<>> THEN grouped
    ELSE LET p == parsedFilename[Head(imgs)]
         IN  IF p.null THEN groupInto(grouped, Tail(imgs))
             ELSE LET dateInfo == parseDateFromDescription(p.description)
                  IN  IF dateInfo.null THEN groupInto(grouped, Tail(imgs))
                      ELSE groupInto(
                               pushEntry(grouped, dateInfo.year, dateInfo.month,
                                         [filename |-> p.filename,
                                          category |-> p.category,
                                          order |-> p.order,
                                          description |-> p.description,
                                          dateInfo |-> dateInfo]),
                               Tail(imgs))

groupByYearMonth(imgs) ==
    [status |-> "returned", grouped |-> groupInto(EmptyObject, imgs)]


-----------------------------------------------------------------------------
(* The generated HTML *)

\* An HTML string is the sequence of its top-level elements in document
\* order, '' the empty sequence and += concatenation.  An element keeps its
\* tag, classes, id, href, its other attributes (a function from the names
\* of the attributes it has), and the text a template fills in from the
\* data; the fixed titles and descriptions are left out.
Element(tag, class, id, href, attrs, text, children) ==
    [tag |-> tag, class |-> class, id |-> id, href |-> href,
     attrs |-> attrs, text |-> text, children |-> children]

NoAttributes == [k \in {} |-> 0]

timeline == <<"t","i","m","e","l","i","n","e">>
top == <<"t","o","p">>
galleryPath == <<"g","a","l","l","e","r","y","/">>
hash == "#"

\* `${n}` for a number n >= 0
RECURSIVE toDecimal(_)
toDecimal(n) ==
    IF n < 10 THEN <<Digits[n + 1]>>
    ELSE toDecimal(n \div 10) \o <<Digits[(n % 10) + 1]>>

\* a variant that sorts the keys downwards
RECURSIVE sortedKeys_descending(_)
sortedKeys_descending(keys) ==
    IF keys = {} THEN <<>>
    ELSE LET most == CHOOSE k \in keys : \A j \in keys : j <= k
         IN  <<most>> \o sortedKeys_descending(keys \ {most})

\* Object.keys(obj).map(k => parseInt(k, 10)).sort((a, b) => a - b), given
\* the keys: a year or month key is the decimal string of the number it was
\* stored under, which parseInt reads back
RECURSIVE sortedKeys(_)
sortedKeys(keys) ==
    IF keys = {} THEN <<>>
    ELSE LET least == CHOOSE k \in keys : \A j \in keys : k <= j
         IN  <<least>> \o sortedKeys(keys \ {least})

\* the <p class="back-to-top"> that ends a section
backToTop ==
    Element("p", {"back-to-top"}, <<>>, <<>>, NoAttributes, <<>>,
        << Element("a", {}, <<>>, <<hash>> \o top, NoAttributes, <<>>, <<>>) >>)

\* the section-title and gallery-section-desc elements that start a section
sectionHead ==
    << Element("div", {"section-title"}, <<>>, <<>>,
           ("data-aos" :> "fade-up") @@ ("data-aos-duration" :> 300),
           <<>>,
           << Element("h2", {}, <<>>, <<>>, NoAttributes, <<>>, <<>>) >>),
       Element("p", {"gallery-section-desc"}, <<>>, <<>>,
           ("data-aos" :> "fade-up") @@ ("data-aos-duration" :> 300)
               @@ ("data-aos-delay" :> 50),
           <<>>, <<>>) >>

\* <a href=imagePath data-fancybox=group data-caption=description><img></a>
photoLink(item, group) ==
    LET imagePath == galleryPath \o item.filename
    IN  Element("a", {}, <<>>, imagePath,
            ("data-fancybox" :> group) @@ ("data-caption" :> item.description),
            <<>>,
            << Element("img", {}, <<>>, <<>>,
                   ("src" :> imagePath) @@ ("alt" :> item.description)
                       @@ ("loading" :> "lazy"),
                   <<>>, <<>>) >>)

generateTimelinePhotoHTML(item) ==
    << Element("div", {"timeline-photo"}, <<>>, <<>>, NoAttributes, <<>>,
           << photoLink(item, timeline),
              Element("span", {"timeline-photo-caption"}, <<>>, <<>>,
                  NoAttributes, item.description, <<>>) >>) >>

\* items.map(item => generateTimelinePhotoHTML(item)).join('')
RECURSIVE photosHTML(_)
photosHTML(items) ==
    IF items = <<>> THEN <<>>
    ELSE generateTimelinePhotoHTML(Head(items)) \o photosHTML(Tail(items))

generateTimelineMonthHTML(month, items, index) ==
    LET monthName == MONTH_NAMES[month + 1]
        delay == (index % 6) * 30
    IN  << Element("div", {"timeline-entry"}, <<>>, <<>>,
               ("data-aos" :> "fade-up") @@ ("data-aos-delay" :> delay)
                   @@ ("data-aos-duration" :> 300),
               <<>>,
               << Element("div", {"timeline-month"}, <<>>, <<>>,
                      NoAttributes, monthName, <<>>),
                  Element("div", {"timeline-dot"}, <<>>, <<>>,
                      NoAttributes, <<>>, <<>>),
                  Element("div", {"timeline-content"}, <<>>, <<>>,
                      NoAttributes, <<>>,
                      << Element("div", {"timeline-photos"}, <<>>, <<>>,
                             NoAttributes, <<>>, photosHTML(items)) >>) >>) >>

\* sortedMonths.forEach((month, index) => { monthsHTML += ... }), from the
\* index-th month on
RECURSIVE monthsHTML(_, _, _)
monthsHTML(months, sortedMonths, index) ==
    IF index >= Len(sortedMonths) THEN <<>>
    ELSE LET month == sortedMonths[index + 1]
         IN  generateTimelineMonthHTML(month, months[month], index)
                 \o monthsHTML(months, sortedMonths, index + 1)

generateTimelineYearHTML(year, months) ==
    LET sortedMonths == sortedKeys(DOMAIN months)
    IN  << Element("div", {"timeline-year-section"}, <<>>, <<>>,
               NoAttributes, <<>>,
               << Element("div", {"timeline-year"}, <<>>, <<>>,
                      ("data-aos" :> "fade-up") @@ ("data-aos-duration" :> 300),
                      toDecimal(year), <<>>),
                  Element("div", {"timeline-line"}, <<>>, <<>>,
                      NoAttributes, <<>>,
                      monthsHTML(months, sortedMonths, 0)) >>) >>

\* sortedYears.forEach(year => { yearsHTML += ... })
RECURSIVE yearsHTML(_, _)
yearsHTML(grouped, sortedYears) ==
    IF sortedYears = <<>> THEN <<>>
    ELSE generateTimelineYearHTML(Head(sortedYears), grouped[Head(sortedYears)])
             \o yearsHTML(grouped, Tail(sortedYears))

generateTimelineHTML(grouped) ==
    LET sortedYears == sortedKeys(DOMAIN grouped)
    IN  IF Len(sortedYears) = 0 THEN <<>>
        ELSE << Element("div", {"row"}, <<>>, <<>>, NoAttributes, <<>>,
                    << Element("div", {"col-lg-12"}, timeline, <<>>,
                           NoAttributes, <<>>,
                           sectionHead
                               \o << Element("div", {"timeline-container"},
                                         <<>>, <<>>, NoAttributes, <<>>,
                                         yearsHTML(grouped, sortedYears)),
                                     backToTop >>) >>) >>

\* CATEGORIES[cat].anchor
anchor ==
    (conference :> <<"c","o","n","f","e","r","e","n","c","e","s">>)
    @@ (activity :> <<"g","r","o","u","p","-","a","c","t","i","v","i","t","i","e","s">>)
    @@ (lablife :> <<"l","a","b","-","l","i","f","e">>)
    @@ (campus :> campus)

generateItemHTML(item, category, index) ==
    LET delay == (index % 4) * 50
    IN  << Element("div", {"gallery-item"}, <<>>, <<>>,
               ("data-aos" :> "fade-up") @@ ("data-aos-delay" :> delay)
                   @@ ("data-aos-duration" :> 300),
               <<>>,
               << photoLink(item, category),
                  Element("p", {"gallery-caption"}, <<>>, <<>>, NoAttributes,
                      item.description, <<>>) >>) >>

\* items.map((item, index) => generateItemHTML(item, categoryKey, index))
\* .join(''), from the index-th item on
RECURSIVE itemsHTML(_, _, _)
itemsHTML(items, categoryKey, index) ==
    IF index >= Len(items) THEN <<>>
    ELSE generateItemHTML(items[index + 1], categoryKey, index)
             \o itemsHTML(items, categoryKey, index + 1)

generateSectionHTML(categoryKey, items) ==
    IF Len(items) = 0 THEN <<>>
    ELSE << Element("div", {"row"}, <<>>, <<>>, NoAttributes, <<>>,
                << Element("div", {"col-lg-12"}, anchor[categoryKey], <<>>,
                       NoAttributes, <<>>,
                       sectionHead
                           \o << Element("div", {"gallery-grid"}, <<>>, <<>>,
                                     NoAttributes, <<>>,
                                     itemsHTML(items, categoryKey, 0)),
                                 backToTop >>) >>) >>

\* Object.keys(CATEGORIES).forEach(cat => { sectionsHTML +=
\* generateSectionHTML(cat, grouped[cat]) })
RECURSIVE sectionsHTML(_, _)
sectionsHTML(grouped, cats) ==
    IF cats = <<>> THEN <<>>
    ELSE generateSectionHTML(Head(cats), grouped[Head(cats)])
             \o sectionsHTML(grouped, Tail(cats))

\* the links generateQuickNav pushes for the categories `cats`
RECURSIVE categoryLinks(_, _)
categoryLinks(grouped, cats) ==
    IF cats = <<>> THEN <<>>
    ELSE (IF Head(cats) \in DOMAIN grouped /\ Len(grouped[Head(cats)]) > 0
          THEN << Element("a", {}, <<>>, <<hash>> \o anchor[Head(cats)],
                      NoAttributes, <<>>, <<>>) >>
          ELSE <<>>)
         \o categoryLinks(grouped, Tail(cats))

\* generateQuickNav(grouped): the links, joined with ' | '; the timeline
\* link is pushed whatever the timeline holds
generateQuickNav(grouped) ==
    categoryLinks(grouped, CATEGORIES)
        \o << Element("a", {}, <<>>, <<hash>> \o timeline, NoAttributes,
                  <<>>, <<>>) >>

-----------------------------------------------------------------------------
(* The document *)

\* An element of the document: the element as written, without its
\* children, with the tag and classes of its parent and the classes of all
\* the elements it is inside of.  element.innerHTML = html puts the elements
\* of html, in document order, in the place of what the element held.
RECURSIVE parseHTML(_, _, _)
parseHTML(html, parent, ancestors) ==
    IF html = <<>> THEN <<>>
    ELSE LET e == Head(html)
         IN  << [tag |-> e.tag, class |-> e.class, id |-> e.id,
                 href |-> e.href, attrs |-> e.attrs, text |-> e.text,
                 parent |-> parent, ancestors |-> ancestors] >>
             \o parseHTML(e.children, [tag |-> e.tag, class |-> e.class],
                          ancestors \cup e.class)
             \o parseHTML(Tail(html), parent, ancestors)

\* a variant that adds to what the element holds
setInnerHTML_append(old, html) ==
    old \o parseHTML(html, [tag |-> "div", class |-> {}], {})

\* element.innerHTML = html, for the two gallery elements
setInnerHTML(old, html) == parseHTML(html, [tag |-> "div", class |-> {}], {})

\* a variant that never finds the container missing
containerMissing_never(element) == FALSE

\* !container
containerMissing(element) == ~element.present

-----------------------------------------------------------------------------
(* animations.js *)

\* ANIMATION_CONFIG, in the order Object.values lists it; a property a
\* configuration does not have is 0 or FALSE here
AnimationConfig(selector, duration, delay, stagger, staggerDelay, staggerReset, maxItems) ==
    [selector |-> selector, aos |-> "fade-up", duration |-> duration,
     delay |-> delay, stagger |-> stagger, staggerDelay |-> staggerDelay,
     staggerReset |-> staggerReset, maxItems |-> maxItems]

ANIMATION_CONFIG ==
    << AnimationConfig("sectionTitle", 300, 0, FALSE, 0, 0, 0),
       AnimationConfig("memberCard", 300, 0, TRUE, 50, 4, 0),
       AnimationConfig("newsEntry", 250, 0, TRUE, 30, 0, 0),
       AnimationConfig("sponsorSection", 350, 0, FALSE, 0, 0, 0),
       AnimationConfig("sponsorLogo", 250, 0, TRUE, 30, 0, 0),
       AnimationConfig("publicationSection", 300, 0, TRUE, 60, 0, 0),
       AnimationConfig("researchCard", 300, 0, TRUE, 60, 2, 0),
       AnimationConfig("quickNav", 250, 50, FALSE, 0, 0, 0),
       AnimationConfig("listItems", 200, 0, TRUE, 20, 0, 20) >>

\* element.matches(config.selector)
matches(selector, el) ==
    CASE selector = "sectionTitle" -> "section-title" \in el.class
      [] selector = "memberCard" -> "member-card" \in el.class
      [] selector = "newsEntry" ->
             el.tag \in {"b", "ul"} /\ "trend-contents" \in el.parent.class
      [] selector = "sponsorSection" -> "sponsor-section" \in el.class
      [] selector = "sponsorLogo" -> "sponsor-logo" \in el.class
      [] selector = "publicationSection" -> "trend-entry" \in el.class
      [] selector = "researchCard" ->
             \/ "research-card" \in el.class
             \/ /\ "col-lg-6" \in el.class
                /\ "row" \in el.parent.class
                /\ "site-section" \in el.ancestors
      [] selector = "quickNav" ->
             \/ "publication-nav" \in el.class
             \/ /\ el.href # <<>>
                /\ Head(el.href) = hash
                /\ ~(el.tag = "a" /\ "back-to-top" \in el.ancestors)
      [] selector = "listItems" ->
             /\ el.tag = "li"
             /\ el.parent.tag = "ul"
             /\ "site-menu" \notin el.parent.class
             /\ "site-section" \in el.ancestors

\* a variant that skips no element
hasDataAos_never(el) == FALSE

\* el.hasAttribute('data-aos')
hasDataAos(el) == "data-aos" \in DOMAIN el.attrs

\* the attributes applyAnimation sets on the index-th element it found
animationAttributes(config, index) ==
    LET staggerIndex == IF config.staggerReset > 0
                        THEN index % config.staggerReset
                        ELSE index
        delay == config.delay
                     + (IF config.stagger THEN staggerIndex * config.staggerDelay
                        ELSE 0)
    IN  ("data-aos" :> config.aos)
        @@ (IF config.duration # 0
            THEN ("data-aos-duration" :> config.duration)
            ELSE NoAttributes)
        @@ (IF delay > 0 THEN ("data-aos-delay" :> delay) ELSE NoAttributes)
        @@ ("data-aos-once" :> "true")

\* applyAnimation(config) on the document doc: the document afterwards
applyAnimation(config, doc) ==
    LET elements == { i \in DOMAIN doc : matches(config.selector, doc[i]) }
        index(i) == Cardinality({ j \in elements : j < i })
        maxItems == IF config.maxItems # 0 THEN config.maxItems
                    ELSE Cardinality(elements)
    IN  [i \in DOMAIN doc |->
            IF \/ i \notin elements
               \/ hasDataAos(doc[i])
               \/ index(i) >= maxItems
            THEN doc[i]
            ELSE [doc[i] EXCEPT
                     !.attrs = animationAttributes(config, index(i)) @@ @]]

\* Object.values(ANIMATION_CONFIG).forEach(config => applyAnimation(config))
RECURSIVE applyEach(_, _)
applyEach(configs, doc) ==
    IF configs = <<>> THEN doc
    ELSE applyEach(Tail(configs), applyAnimation(Head(configs), doc))

-----------------------------------------------------------------------------
(* The state machines *)

\* no timeline generated, no date parsed
NotRendered == [rendered |-> FALSE, html |-> <<>>]
TimelineIdle == timelineHTML = NotRendered
DateIdle == dateArg = <<>> /\ dateReturned = [null |-> TRUE, called |-> FALSE]

\* groupByCategory not called, nothing sorted yet
CallsIdle == calls = <<>> /\ engine = EmptyObject

\* document.getElementById(id) === null
Absent == [present |-> FALSE, innerHTML |-> <<>>]

\* no page
PageIdle ==
    /\ page = <<>>
    /\ nav = Absent
    /\ container = Absent
    /\ libraries = {}
    /\ log = <<>>

NotCalled == [status |-> "none", grouped |-> EmptyObject]
NotParsed == [null |-> TRUE, called |-> FALSE]

\* grouping: a list of filenames, then the two grouping functions on it
Init ==
    /\ filename = <<>>
    /\ parsed = NotParsed
    /\ images \in ImageLists
    /\ byCategory = NotCalled
    /\ byYearMonth = NotCalled
    /\ TimelineIdle
    /\ DateIdle
    /\ CallsIdle
    /\ PageIdle

GroupByCategory ==
    /\ byCategory.status = "none"
    /\ byCategory' \in groupByCategory(images)
    /\ UNCHANGED <<filename, parsed, images, byYearMonth>>
    /\ UNCHANGED <<timelineVars, dateVars, callVars, pageVars>>

GroupByYearMonth ==
    /\ byYearMonth.status = "none"
    /\ byYearMonth' = groupByYearMonth(images)
    /\ UNCHANGED <<filename, parsed, images, byCategory>>
    /\ UNCHANGED <<timelineVars, dateVars, callVars, pageVars>>

Next == GroupByCategory \/ GroupByYearMonth

Spec == Init /\ [][Next]_vars

\* parsing: GalleryModule.parseFilename called on one filename
InitParse ==
    /\ filename \in ParseInputs
    /\ parsed = NotParsed
    /\ images = <<>>
    /\ byCategory = NotCalled
    /\ byYearMonth = NotCalled
    /\ TimelineIdle
    /\ DateIdle
    /\ CallsIdle
    /\ PageIdle

ParseFilename ==
    /\ parsed' = parseFilename(filename)
    /\ UNCHANGED <<filename, images, byCategory, byYearMonth>>
    /\ UNCHANGED <<timelineVars, dateVars, callVars, pageVars>>

NextParse == ParseFilename

SpecParse == InitParse /\ [][NextParse]_vars

\* the timeline: a list of filenames, groupByYearMonth on it, and
\* generateTimelineHTML on what it returned
InitTimeline ==
    /\ filename = <<>>
    /\ parsed = NotParsed
    /\ images \in TimelineLists
    /\ byCategory = NotCalled
    /\ byYearMonth = NotCalled
    /\ TimelineIdle
    /\ DateIdle
    /\ CallsIdle
    /\ PageIdle

GenerateTimeline ==
    /\ byYearMonth.status = "returned"
    /\ ~timelineHTML.rendered
    /\ timelineHTML' = [rendered |-> TRUE,
                        html |-> generateTimelineHTML(byYearMonth.grouped)]
    /\ UNCHANGED <<groupingVars, dateVars, callVars, pageVars>>

NextTimeline == GroupByYearMonth \/ GenerateTimeline

SpecTimeline == InitTimeline /\ [][NextTimeline]_vars

\* groupByCategory called again and again on one list
InitCalls ==
    /\ filename = <<>>
    /\ parsed = NotParsed
    /\ images \in ImageLists
    /\ byCategory = NotCalled
    /\ byYearMonth = NotCalled
    /\ TimelineIdle
    /\ DateIdle
    /\ CallsIdle
    /\ PageIdle

\* the function reads images with forEach and assigns to nothing outside
\* its own object
CallGroupByCategory ==
    /\ Len(calls) < MaxCalls
    /\ \E r \in groupByCategoryOn(engine, images) :
           /\ calls' = Append(calls, [status |-> r.status, grouped |-> r.grouped])
           /\ engine' = r.engine
    /\ UNCHANGED <<groupingVars, timelineVars, dateVars, pageVars>>

NextCalls == CallGroupByCategory

SpecCalls == InitCalls /\ [][NextCalls]_vars

\* the gallery page: the two gallery elements, there or not, the libraries,
\* loaded or not, and a list of filenames; then initGallery (on
\* DOMContentLoaded and as GalleryModule.refresh) and initAnimations (on
\* DOMContentLoaded and as SiteAnimations.refresh) in any order.  jQuery is
\* loaded.  querySelectorAll lists the elements of page, then those of the
\* navigation element, then those of the container.  The list names each
\* file of the gallery folder once.
PagePool ==
    { conference_02_B, conference_x_Z, conference_01_A, lablife_01_Aug,
      constructor_01_Aug }

Empty == [present |-> TRUE, innerHTML |-> <<>>]

InitPage ==
    /\ filename = <<>>
    /\ parsed = NotParsed
    /\ images \in { l \in UNION { [1..n -> PagePool] : n \in 0..MaxPageImages } :
                        \A i, j \in DOMAIN l : i # j => l[i] # l[j] }
    /\ byCategory = NotCalled
    /\ byYearMonth = NotCalled
    /\ TimelineIdle
    /\ DateIdle
    /\ CallsIdle
    /\ page = <<>>
    /\ nav \in {Absent, Empty}
    /\ container \in {Absent, Empty}
    /\ libraries \in SUBSET {"fancybox", "AOS"}
    /\ log = <<>>

\* what a call leaves: the document after it and the calls it made outside
Entry(call, outcome, p, n, c, outside) ==
    [call |-> call, outcome |-> outcome, page |-> p, nav |-> n,
     container |-> c, outside |-> outside]

\* if (typeof library !== 'undefined') call
IfLoaded(library, call) == IF library \in libraries THEN <<call>> ELSE <<>>

InitGallery ==
    /\ Len(log) < MaxInits
    /\ IF containerMissing(container)
       THEN /\ log' = Append(log, Entry("initGallery", "returned", page, nav,
                                        container, <<"console.error">>))
            /\ UNCHANGED <<nav, container, engine>>
       ELSE \E r \in groupByCategoryOn(engine, images) :
                IF r.status = "threw"
                THEN /\ log' = Append(log, Entry("initGallery", "threw", page,
                                                 nav, container, <<>>))
                     /\ UNCHANGED <<nav, container, engine>>
                ELSE LET timelineGrouped == groupByYearMonth(images).grouped
                         navAfter ==
                             IF nav.present
                             THEN [nav EXCEPT !.innerHTML =
                                      setInnerHTML(@, generateQuickNav(r.grouped))]
                             ELSE nav
                         html == sectionsHTML(r.grouped, CATEGORIES)
                                     \o generateTimelineHTML(timelineGrouped)
                     IN  /\ nav' = navAfter
                         /\ engine' = r.engine
                         /\ IF container.present
                            THEN /\ container' =
                                        [container EXCEPT !.innerHTML =
                                            setInnerHTML(@, html)]
                                 /\ log' = Append(log,
                                        Entry("initGallery", "returned", page,
                                              navAfter, container',
                                              IfLoaded("fancybox", "fancybox")
                                                  \o IfLoaded("AOS", "AOS.refresh")))
                            ELSE \* container.innerHTML = ... on null throws
                                 /\ container' = container
                                 /\ log' = Append(log,
                                        Entry("initGallery", "threw", page,
                                              navAfter, container, <<>>))
    /\ UNCHANGED <<groupingVars, timelineVars, dateVars, calls, page, libraries>>

InitAnimations ==
    /\ Len(log) < MaxInits
    /\ LET doc == page \o nav.innerHTML \o container.innerHTML
           after == applyEach(ANIMATION_CONFIG, doc)
           first == \A i \in DOMAIN log : log[i].call # "initAnimations"
       IN  /\ page' = SubSeq(after, 1, Len(page))
           /\ nav' = [nav EXCEPT !.innerHTML =
                          SubSeq(after, Len(page) + 1, Len(page) + Len(@))]
           /\ container' = [container EXCEPT !.innerHTML =
                                SubSeq(after, Len(after) - Len(@) + 1, Len(after))]
           /\ log' = Append(log,
                  Entry("initAnimations", "returned", page', nav', container',
                        (IF first THEN IfLoaded("AOS", "AOS.init") ELSE <<>>)
                            \o IfLoaded("AOS", "AOS.refresh")))
    /\ UNCHANGED <<groupingVars, timelineVars, dateVars, callVars, libraries>>

NextPage == InitGallery \/ InitAnimations

SpecPage == InitPage /\ [][NextPage]_vars

\* a page without gallery: elements that one, two or no configuration
\* selects, with and without attributes of their own, and a list longer
\* than listItems.maxItems; then initAnimations again and again
StaticElement(tag, class, href, attrs, parent, ancestors) ==
    [tag |-> tag, class |-> class, id |-> <<>>, href |-> href, attrs |-> attrs,
     text |-> <<>>, parent |-> parent, ancestors |-> ancestors]

PageElements ==
    LET div == [tag |-> "div", class |-> {"row"}]
    IN  { StaticElement("div", {"section-title"}, <<>>, NoAttributes, div,
              {"site-section", "row"}),
          StaticElement("div", {"section-title", "member-card"}, <<>>,
              NoAttributes, div, {"site-section", "row"}),
          StaticElement("div", {"member-card"}, <<>>,
              ("data-aos" :> "zoom-in") @@ ("data-aos-delay" :> 500), div,
              {"site-section", "row"}),
          StaticElement("div", {"member-card"}, <<>>, NoAttributes, div,
              {"site-section", "row"}),
          StaticElement("div", {"research-card", "sponsor-logo"}, <<>>,
              ("data-aos-delay" :> 500), div, {"site-section", "row"}),
          StaticElement("p", {"publication-nav"}, <<>>, NoAttributes, div,
              {"site-section", "row"}),
          StaticElement("a", {}, <<hash>> \o top, NoAttributes,
              [tag |-> "p", class |-> {"back-to-top"}],
              {"site-section", "back-to-top"}),
          StaticElement("li", {"trend-entry"}, <<>>, NoAttributes,
              [tag |-> "ul", class |-> {}], {"site-section"}) }

ListItems ==
    [i \in 1..(ANIMATION_CONFIG[9].maxItems + 1) |->
        StaticElement("li", {}, <<>>, NoAttributes,
            [tag |-> "ul", class |-> {}], {"site-section"})]

InitAnim ==
    /\ filename = <<>>
    /\ parsed = NotParsed
    /\ images = <<>>
    /\ byCategory = NotCalled
    /\ byYearMonth = NotCalled
    /\ TimelineIdle
    /\ DateIdle
    /\ CallsIdle
    /\ \E elements \in UNION { [1..n -> PageElements] : n \in 0..MaxElements } :
           page \in {elements, elements \o ListItems, ListItems \o elements}
    /\ nav = Absent
    /\ container = Absent
    /\ libraries \in SUBSET {"AOS"}
    /\ log = <<>>

NextAnim == InitAnimations

SpecAnim == InitAnim /\ [][NextAnim]_vars

\* the descriptions parseDateFromDescription is called on alone: a first
\* token, white space, a year token, a separator and a remainder, each
\* also missing or of another length; and the three descriptions the
\* specification names
firstLabLunch ==
    <<"A","u","g"," ","2","0","2","4"," ","-"," ","F","i","r","s","t"," ",
      "L","a","b"," ","L","u","n","c","h">>

DateInputs ==
    { m \o w \o y \o sep \o t :
          m \in { <<"A","u","g">>, <<"a","u","g">>, <<"D","E","C">>,
                  <<"X","y","z">>, <<"S","e","p","t">>, <<"A","u">>, <<>> },
          w \in { <<" ">>, <<" ","\t">>, <<>> },
          y \in { <<"2","0","2","4">>, <<"0","0","2","4">>, <<"2","0","2">>,
                  <<"2","0","2","4","5">> },
          sep \in { <<" ","-"," ">>, <<"-">>, <<" ","-">>, <<"\n","-","\n">>,
                    <<" ">>, <<>> },
          t \in { <<"L">>, <<"L"," ","x"," ">>, <<"-","x">>, <<" ">>,
                  <<"a","\n","b">>, <<"L","\n">>, <<>> } }
    \cup { firstLabLunch,
           <<"2","0","2","4"," ","L","a","b">>,
           <<"X","y","z"," ","2","0","2","4"," ","-"," ","E">> }

InitDate ==
    /\ filename = <<>>
    /\ parsed = NotParsed
    /\ images = <<>>
    /\ byCategory = NotCalled
    /\ byYearMonth = NotCalled
    /\ TimelineIdle
    /\ dateArg \in DateInputs
    /\ dateReturned = [null |-> TRUE, called |-> FALSE]
    /\ CallsIdle
    /\ PageIdle

ParseDate ==
    /\ dateReturned' = parseDateFromDescription(dateArg)
    /\ UNCHANGED <<groupingVars, timelineVars, dateArg, callVars, pageVars>>

NextDate == ParseDate

SpecDate == InitDate /\ [][NextDate]_vars


-----------------------------------------------------------------------------
(* What the properties below read off a filename and off the two views *)

UnderscoreCount(s) == Cardinality({ i \in DOMAIN s : s[i] = underscore })

\* the position of the n-th underscore of s (there are at least n)
NthUnderscore(s, n) ==
    CHOOSE i \in DOMAIN s :
        /\ s[i] = underscore
        /\ UnderscoreCount(SubSeq(s, 1, i)) = n

\* the number of underscore-separated segments after extension stripping
SegmentCount(f) == UnderscoreCount(removeExtension(f)) + 1

\* the text before the first underscore, lower-cased
FirstSegmentLower(f) ==
    toLowerCase(SubSeq(f, 1, NthUnderscore(f, 1) - 1))

\* the text after the second underscore, the extension removed
AfterSecondUnderscore(f) ==
    LET s == removeExtension(f) IN Drop(s, NthUnderscore(s, 2) + 1)

WasParsed == parsed # NotParsed

Accepted(f) == ~parsedFilename[f].null

\* how often the filename f occurs in the list of filenames imgs
Occurrences(imgs, f) == Cardinality({ i \in DOMAIN imgs : imgs[i] = f })

\* how often an item with the filename f occurs in the sequence of items s
ItemCount(s, f) == Cardinality({ i \in DOMAIN s : s[i].filename = f })

\* how often f occurs over the sequences of the category view g keyed by
\* the keys `keys`
RECURSIVE CategorySum(_, _, _)
CategorySum(g, keys, f) ==
    IF keys = {} THEN 0
    ELSE LET c == CHOOSE x \in keys : TRUE
         IN  ItemCount(g[c], f) + CategorySum(g, keys \ {c}, f)

CategoryViewCount(g, f) == CategorySum(g, DOMAIN g, f)

\* the number of items over all sequences of the category view g
RECURSIVE LengthSum(_, _)
LengthSum(g, keys) ==
    IF keys = {} THEN 0
    ELSE LET c == CHOOSE x \in keys : TRUE
         IN  Len(g[c]) + LengthSum(g, keys \ {c})

\* the buckets of the timeline view g, as <<year, month>> pairs
AllBuckets(g) == UNION { { <<y, m>> : m \in DOMAIN g[y] } : y \in DOMAIN g }

\* how often f occurs over all buckets of the timeline view g
RECURSIVE BucketSum(_, _, _)
BucketSum(g, bs, f) ==
    IF bs = {} THEN 0
    ELSE LET b == CHOOSE x \in bs : TRUE
         IN  ItemCount(g[b[1]][b[2]], f) + BucketSum(g, bs \ {b}, f)

TimelineCount(g, f) == BucketSum(g, AllBuckets(g), f)

\* the filenames of a sequence of items
Filenames(s) == [i \in DOMAIN s |-> s[i].filename]

\* the accepted items of the list imgs that parse to the category cat, in
\* list order
RECURSIVE AcceptedOf(_, _)
AcceptedOf(imgs, cat) ==
    IF imgs = <<>> THEN <<>>
    ELSE LET p == parsedFilename[Head(imgs)]
         IN  IF ~p.null /\ p.category = cat
             THEN <<p>> \o AcceptedOf(Tail(imgs), cat)
             ELSE AcceptedOf(Tail(imgs), cat)

\* the items of s whose order is the number v, in their order
RECURSIVE WithOrder(_, _)
WithOrder(s, v) ==
    IF s = <<>> THEN <<>>
    ELSE IF Head(s).order = Num(v) THEN <<Head(s)>> \o WithOrder(Tail(s), v)
    ELSE WithOrder(Tail(s), v)

\* the items of s whose order is not a number, in their order
RECURSIVE WithoutNumber(_)
WithoutNumber(s) ==
    IF s = <<>> THEN <<>>
    ELSE IF Head(s).order.nan THEN <<Head(s)>> \o WithoutNumber(Tail(s))
    ELSE WithoutNumber(Tail(s))


-----------------------------------------------------------------------------
(* Properties of parseFilename, checked under SpecParse *)

\* C3: a filename with fewer than 3 underscore-separated segments after the
\* extension is stripped is rejected (null), whatever its first segment is.
C3_TooFewSegmentsRejected ==
    (WasParsed /\ SegmentCount(filename) < 3) => parsed = Null

\* a two-segment name whose first segment is a category has been rejected
C3_Witness ==
    /\ filename = conference \o <<underscore>> \o <<"0","1">> \o dotJpg
    /\ parsed = Null

\* C9: the description of an accepted filename is the whole text after the
\* second underscore, the extension removed; underscores inside it are kept.
C9_DescriptionRejoined ==
    (WasParsed /\ ~parsed.null) =>
        parsed.description = AfterSecondUnderscore(filename)

\* lablife_12_Sep_2025_-_Dinner has been parsed to Sep_2025_-_Dinner
C9_Witness ==
    /\ filename = Name(lablife, <<"1","2">>, sepDinner, <<>>)
    /\ ~parsed.null
    /\ parsed.description = sepDinner

\* the suffixes the claim names
KnownSuffixes ==
    { <<".","j","p","g">>, <<".","j","p","e","g">>, <<".","p","n","g">>,
      <<".","g","i","f">>, <<".","w","e","b","p">> }

\* f ends with the suffix e, in any letter case
HasSuffix(f, e) ==
    Len(f) >= Len(e) /\ toLowerCase(SubSeq(f, Len(f) - Len(e) + 1, Len(f))) = e

\* f without its last known suffix, or f itself when it ends with none
WithoutSuffix(f) ==
    IF \E e \in KnownSuffixes : HasSuffix(f, e)
    THEN LET e == CHOOSE x \in KnownSuffixes : HasSuffix(f, x)
         IN  SubSeq(f, 1, Len(f) - Len(e))
    ELSE f

\* C14: parseFilename strips one trailing .jpg, .jpeg, .png, .gif or .webp,
\* in any letter case, and nothing else.  A filename without such an
\* extension is not rejected for that: it is rejected only for too few
\* segments or an unknown first segment, and otherwise split as it is, so
\* that another suffix stays in the description.
C14_ExtensionStripping ==
    WasParsed =>
        /\ parsed.null =>
               \/ UnderscoreCount(WithoutSuffix(filename)) < 2
               \/ FirstSegmentLower(filename) \notin Range(CATEGORIES)
        /\ ~parsed.null =>
               /\ parsed.filename = filename
               /\ UnderscoreCount(WithoutSuffix(filename)) >= 2
               /\ parsed.description =
                      Drop(WithoutSuffix(filename), NthUnderscore(filename, 2) + 1)

\* conference_01_A.txt has been parsed, and its description is A.txt
C14_Witness ==
    /\ filename = Name(conference, <<"0","1">>, <<"A">>, dotTxt)
    /\ WasParsed
    /\ ~parsed.null
    /\ parsed.description = <<"A">> \o dotTxt

-----------------------------------------------------------------------------
(* Properties of the two groupings, checked under Spec *)

CategoryDone == byCategory.status # "none"
CategoryReturned == byCategory.status = "returned"
TimelineDone == byYearMonth.status # "none"

\* the filename has 3 segments or more and a first segment that is none of
\* the four categories
UnknownFirstSegment(f) ==
    /\ SegmentCount(f) >= 3
    /\ FirstSegmentLower(f) \notin Range(CATEGORIES)

\* C1: a filename with 3 or more segments whose lower-cased first segment
\* is not conference, activity, lablife or campus is rejected (null) and is
\* in no category sequence and in no timeline bucket.
C1_UnknownCategoryRejected ==
    \A i \in DOMAIN images :
        UnknownFirstSegment(images[i]) =>
            /\ TimelineDone =>
                   /\ parsedFilename[images[i]] = Null
                   /\ TimelineCount(byYearMonth.grouped, images[i]) = 0
            /\ CategoryReturned =>
                   CategoryViewCount(byCategory.grouped, images[i]) = 0

\* C2: both groupings run to completion on any list, and every accepted
\* item is in the result, also after a rejected one.
C2_BatchNeverAborts ==
    /\ CategoryDone =>
           /\ CategoryReturned
           /\ \A i \in DOMAIN images :
                  Accepted(images[i]) =>
                      CategoryViewCount(byCategory.grouped, images[i]) >= 1
    /\ TimelineDone =>
           \A i \in DOMAIN images :
               (/\ Accepted(images[i])
                /\ ~parseDateFromDescription(
                        parsedFilename[images[i]].description).null)
                   => TimelineCount(byYearMonth.grouped, images[i]) >= 1

\* C4 as stated: on the scenario list the conference sequence is [A, B],
\* bogus.jpg is dropped and weird_x_Y is included, after the numeric entries.
C4_ScenarioAsStated ==
    (images = ScenarioImages /\ CategoryDone) =>
        /\ CategoryReturned
        /\ SubSeq(Filenames(byCategory.grouped[conference]), 1, 2)
               = <<conference_01_A, conference_02_B>>
        /\ CategoryViewCount(byCategory.grouped, bogus_jpg) = 0
        /\ CategoryViewCount(byCategory.grouped, weird_x_Y) = 1

\* C4, amended: on the scenario list the conference sequence is exactly
\* [A, B]; bogus.jpg is dropped as malformed and weird_x_Y.jpg is dropped
\* too, its first segment being no category; the other sequences are empty.
C4_Scenario ==
    (images = ScenarioImages /\ CategoryDone) =>
        /\ CategoryReturned
        /\ Filenames(byCategory.grouped[conference])
               = <<conference_01_A, conference_02_B>>
        /\ CategoryViewCount(byCategory.grouped, bogus_jpg) = 0
        /\ CategoryViewCount(byCategory.grouped, weird_x_Y) = 0
        /\ \A cat \in Range(CATEGORIES) \ {conference} :
               byCategory.grouped[cat] = <<>>

\* groupByCategory has returned on the scenario list
C4_Witness == images = ScenarioImages /\ CategoryReturned

\* C5: in every category sequence the numeric orders ascend, every item
\* with a non-numeric order comes after all numeric ones, and the
\* non-numeric items keep their input order.
C5_NumericAscendingNaNLast ==
    CategoryReturned =>
        \A cat \in DOMAIN byCategory.grouped :
            LET s == byCategory.grouped[cat]
            IN  /\ \A i, j \in DOMAIN s :
                       i < j =>
                           /\ (~s[i].order.nan /\ ~s[j].order.nan)
                                  => s[i].order.n <= s[j].order.n
                           /\ ~(s[i].order.nan /\ ~s[j].order.nan)
                /\ WithoutNumber(s) = WithoutNumber(AcceptedOf(images, cat))

\* C6: accepted items of one category with equal order are in the category
\* sequence in the order they have in the input list.
C6_StableOnEqualOrder ==
    CategoryReturned =>
        \A cat \in DOMAIN byCategory.grouped :
            LET s == byCategory.grouped[cat]
            IN  \A i \in DOMAIN s :
                    ~s[i].order.nan =>
                        WithOrder(s, s[i].order.n)
                            = WithOrder(AcceptedOf(images, cat), s[i].order.n)

\* C7: the object groupByCategory builds has exactly the four category keys,
\* and a category with no accepted item is mapped to the empty sequence.
C7_FourKeys ==
    CategoryDone =>
        /\ DOMAIN byCategory.grouped = Range(CATEGORIES)
        /\ \A cat \in Range(CATEGORIES) :
               AcceptedOf(images, cat) = <<>> => byCategory.grouped[cat] = <<>>

\* groupByCategory has returned a view with a filled and an empty sequence
C7_Witness ==
    /\ CategoryReturned
    /\ byCategory.grouped[conference] # <<>>
    /\ byCategory.grouped[campus] = <<>>

\* C8: every occurrence of an accepted filename is in the category view
\* exactly once, in the sequence of its own category and in no other, and
\* the view holds as many items as the list has accepted filenames.
C8_ExactlyOneCategory ==
    CategoryDone =>
        /\ CategoryReturned
        /\ \A i \in DOMAIN images :
               Accepted(images[i]) =>
                   LET cat == parsedFilename[images[i]].category
                   IN  /\ cat \in DOMAIN byCategory.grouped
                       /\ ItemCount(byCategory.grouped[cat], images[i])
                              = Occurrences(images, images[i])
                       /\ CategoryViewCount(byCategory.grouped, images[i])
                              = Occurrences(images, images[i])
        /\ LengthSum(byCategory.grouped, DOMAIN byCategory.grouped)
               = Cardinality({ i \in DOMAIN images : Accepted(images[i]) })

\* C10: an accepted item without a date is in its category sequence and in
\* no timeline bucket; one with a date is in its category sequence and in
\* exactly the bucket of its year and month, once per occurrence; no bucket
\* is empty and every bucket is keyed by a year and a month 0..11.
C10_TimelineFilter ==
    (CategoryDone /\ TimelineDone) =>
        /\ \A i \in DOMAIN images :
               Accepted(images[i]) =>
                   LET f == images[i]
                       p == parsedFilename[f]
                       d == parseDateFromDescription(p.description)
                       t == byYearMonth.grouped
                   IN  /\ CategoryReturned
                       /\ p.category \in DOMAIN byCategory.grouped
                       /\ ItemCount(byCategory.grouped[p.category], f) >= 1
                       /\ d.null => TimelineCount(t, f) = 0
                       /\ ~d.null =>
                              /\ d.year \in DOMAIN t
                              /\ d.month \in DOMAIN t[d.year]
                              /\ ItemCount(t[d.year][d.month], f)
                                     = Occurrences(images, f)
                              /\ TimelineCount(t, f) = Occurrences(images, f)
        /\ \A b \in AllBuckets(byYearMonth.grouped) :
               /\ byYearMonth.grouped[b[1]][b[2]] # <<>>
               /\ b[1] \in Nat
               /\ b[2] \in 0..11

-----------------------------------------------------------------------------
(* The rendered timeline, under SpecTimeline *)

\* the elements of an HTML string in document order
RECURSIVE elementsOf(_)
elementsOf(html) ==
    IF html = <<>> THEN <<>>
    ELSE <<Head(html)>> \o elementsOf(Head(html).children)
             \o elementsOf(Tail(html))

WithClass(html, c) == SelectSeq(elementsOf(html), LAMBDA e : c \in e.class)

YearSections == WithClass(timelineHTML.html, "timeline-year-section")
YearOf(section) == parseInt(WithClass(<<section>>, "timeline-year")[1].text).n
EntriesOf(section) == WithClass(<<section>>, "timeline-entry")
MonthOf(entry) ==
    (CHOOSE m \in DOMAIN MONTH_NAMES :
         MONTH_NAMES[m] = WithClass(<<entry>>, "timeline-month")[1].text) - 1
PhotosOf(entry) ==
    LET photos == WithClass(<<entry>>, "timeline-photo")
    IN  [i \in DOMAIN photos |->
            SubSeq(photos[i].children[1].href, Len(galleryPath) + 1,
                   Len(photos[i].children[1].href))]

\* p can be read off s from left to right, skipping elements of s
RECURSIVE Embeds(_, _)
Embeds(p, s) ==
    IF p = <<>> THEN TRUE
    ELSE IF s = <<>> THEN FALSE
    ELSE IF Head(p) = Head(s) THEN Embeds(Tail(p), Tail(s))
    ELSE Embeds(p, Tail(s))

\* C11: in the rendered timeline the year sections come in ascending year
\* order, the month entries of a year in ascending month index 0..11, and
\* the photos of one month entry in the relative order their filenames have
\* in the input list, whatever their categories and order fields.
C11_TimelineOrder ==
    timelineHTML.rendered =>
        LET ys == YearSections
        IN  /\ \A i, j \in DOMAIN ys :
                   i < j => YearOf(ys[i]) < YearOf(ys[j])
            /\ \A i \in DOMAIN ys :
                   LET es == EntriesOf(ys[i])
                   IN  /\ \A a, b \in DOMAIN es :
                              a < b => MonthOf(es[a]) < MonthOf(es[b])
                       /\ \A a \in DOMAIN es :
                              /\ MonthOf(es[a]) \in 0..11
                              /\ PhotosOf(es[a]) # <<>>
                              /\ Embeds(PhotosOf(es[a]), images)

\* a later year listed first, a later month before an earlier one, and two
\* photos of one month whose order fields run against the list order
C11_Witness ==
    /\ timelineHTML.rendered
    /\ images = <<Conference_01_Jan, campus_03_Dec, conference_02_Aug,
                  lablife_01_Aug>>
    /\ Len(YearSections) = 2
    /\ Len(EntriesOf(YearSections[1])) = 2
    /\ PhotosOf(EntriesOf(YearSections[1])[1])
           = <<conference_02_Aug, lablife_01_Aug>>

-----------------------------------------------------------------------------
(* parseDateFromDescription, under SpecDate *)

DateParsed == dateReturned # [null |-> TRUE, called |-> FALSE]

\* the first position from `from` on that holds no white space
SkipSpace(d, from) ==
    CHOOSE p \in from..(Len(d) + 1) :
        /\ \A k \in from..(p - 1) : IsSpace(d[k])
        /\ p = Len(d) + 1 \/ ~IsSpace(d[p])

YearAt(d) == SkipSpace(d, 4)
SeparatorAt(d) == SkipSpace(d, YearAt(d) + 4)

\* the text behind the separator, trimmed
EventOf(d) == trim(Drop(d, SeparatorAt(d) + 1))

\* three letters, white space, four digits, optional white space, '-',
\* optional white space and a text that is not empty
MonthYearEventShape(d) ==
    /\ Len(d) >= 3
    /\ \A k \in 1..3 : IsLetter(d[k])
    /\ YearAt(d) > 4
    /\ YearAt(d) + 3 <= Len(d)
    /\ \A k \in YearAt(d)..(YearAt(d) + 3) : IsDigit(d[k])
    /\ SeparatorAt(d) <= Len(d)
    /\ d[SeparatorAt(d)] = "-"
    /\ EventOf(d) # <<>>

MonthToken(d) == toLowerCase(SubSeq(d, 1, 3))
YearToken(d) == SubSeq(d, YearAt(d), YearAt(d) + 3)

\* the text, from its first character that is no white space on, has no
\* line terminator
OnOneLine(d) ==
    \A k \in SkipSpace(d, SeparatorAt(d) + 1)..Len(d) : ~IsLineTerminator(d[k])

\* the four-digit number as year, the index of the month as month and the
\* remaining text, trimmed, as event
DateInfoAsDescribed ==
    /\ ~dateReturned.null
    /\ dateReturned.year = DecimalValue(YearToken(dateArg))
    /\ dateReturned.month \in 0..11
    /\ MONTH_MAP_KEYS[dateReturned.month + 1] = MonthToken(dateArg)
    /\ dateReturned.event = EventOf(dateArg)

\* C12, as stated: for every description of the shape above whose three
\* letters, lower-cased, are one of jan..dec, parseDateFromDescription
\* returns the four-digit number as year, the index of the month as month
\* and the remaining text, trimmed, as event.
C12_DateParsedAsStated ==
    DateParsed /\ MonthYearEventShape(dateArg)
               /\ MonthToken(dateArg) \in Range(MONTH_MAP_KEYS)
        => DateInfoAsDescribed

\* C12, amended: the same for every such description whose text has no line
\* terminator behind its first character that is no white space.
C12_DateParsed ==
    DateParsed /\ MonthYearEventShape(dateArg) /\ OnOneLine(dateArg)
               /\ MonthToken(dateArg) \in Range(MONTH_MAP_KEYS)
        => DateInfoAsDescribed

\* "Aug 2024 - First Lab Lunch" gives 2024, 7 and "First Lab Lunch"
C12_Witness ==
    /\ DateParsed
    /\ dateArg = firstLabLunch
    /\ MonthYearEventShape(dateArg) /\ OnOneLine(dateArg)
    /\ dateReturned.year = 2024
    /\ dateReturned.month = 7
    /\ dateReturned.event = Drop(firstLabLunch, 12)

\* C13: parseDateFromDescription returns null for every description that
\* has not the shape above (no month token, a month name of another length,
\* a year of another length, no separator, an empty event) and for one of
\* that shape whose three letters are no month; it never returns a month
\* outside 0..11.
C13_NullOtherwise ==
    DateParsed =>
        /\ ~MonthYearEventShape(dateArg) => dateReturned.null
        /\ MonthToken(dateArg) \notin Range(MONTH_MAP_KEYS) => dateReturned.null
        /\ ~dateReturned.null => dateReturned.month \in 0..11

-----------------------------------------------------------------------------
(* groupByCategory called twice, under SpecCalls *)

-----------------------------------------------------------------------------
(* initGallery and initAnimations, under SpecPage and SpecAnim *)

Document == page \o nav.innerHTML \o container.innerHTML

Last(s) == s[Len(s)]

\* the entries of the initGallery calls that returned with a container
GalleryInits ==
    { i \in DOMAIN log :
        /\ log[i].call = "initGallery"
        /\ log[i].outcome = "returned"
        /\ log[i].container.present }

AnimationInits == { i \in DOMAIN log : log[i].call = "initAnimations" }

\* C16: with the list unchanged, every initGallery call leaves in the
\* container and in the navigation element what the first one left there;
\* nothing accumulates.
C16_RefreshIdempotent ==
    \A i, j \in DOMAIN log :
        log[i].call = "initGallery" /\ log[j].call = "initGallery" =>
            /\ log[i].container = log[j].container
            /\ log[i].nav = log[j].nav
            /\ log[i].outcome = log[j].outcome

\* three initGallery calls on a list whose conference photos the engine
\* may arrange in several ways, with both elements there
C16_Witness ==
    /\ images = <<conference_02_B, conference_x_Z, conference_01_A>>
    /\ Cardinality(GalleryInits) = 3
    /\ nav.present
    /\ Len(nav.innerHTML) = 2
    /\ Len(SelectSeq(container.innerHTML,
                      LAMBDA e : "gallery-item" \in e.class)) = 3

\* the ids of the sections an entry's container holds, in document order
SectionIds(e) ==
    LET sections == SelectSeq(e.container.innerHTML, LAMBDA el : el.id # <<>>)
    IN  [k \in DOMAIN sections |-> sections[k].id]

\* the targets of the links an entry's navigation element holds
LinkTargets(e) == [k \in DOMAIN e.nav.innerHTML |-> Tail(e.nav.innerHTML[k].href)]

\* the anchors of the categories `cats` that have an accepted filename
RECURSIVE NonEmptyAnchors(_)
NonEmptyAnchors(cats) ==
    IF cats = <<>> THEN <<>>
    ELSE (IF AcceptedOf(images, Head(cats)) # <<>> THEN <<anchor[Head(cats)]>>
          ELSE <<>>) \o NonEmptyAnchors(Tail(cats))

\* C17: after initGallery every quick-navigation link targets the id of a
\* section written to the container: the category links and the category
\* sections are those of the categories with an item, in declaration
\* order, and the timeline link is there only when the timeline section is.
C17_LinksHaveSections ==
    \A i \in GalleryInits :
        log[i].nav.present =>
            /\ \A k \in DOMAIN LinkTargets(log[i]) :
                   LinkTargets(log[i])[k] \in Range(SectionIds(log[i]))
            /\ SelectSeq(LinkTargets(log[i]), LAMBDA t : t # timeline)
                   = NonEmptyAnchors(CATEGORIES)
            /\ SelectSeq(SectionIds(log[i]), LAMBDA t : t # timeline)
                   = NonEmptyAnchors(CATEGORIES)

\* C18: without an element gallery-container, initGallery reports the
\* error and returns: the navigation element and the rest of the document
\* are as before, and neither fancybox nor AOS is called.
C18_NothingWithoutContainer ==
    [][ (/\ Len(log') = Len(log) + 1
         /\ Last(log').call = "initGallery"
         /\ ~container.present)
        => /\ nav' = nav
           /\ container' = container
           /\ page' = page
           /\ Last(log').outcome = "returned"
           /\ Last(log').outside = <<"console.error">> ]_vars

\* the navigation element is there, both libraries are loaded, and an
\* initGallery call has found no container
C18_Witness ==
    /\ ~container.present
    /\ nav.present
    /\ libraries = {"fancybox", "AOS"}
    /\ images = <<lablife_01_Aug>>
    /\ \E i \in DOMAIN log :
           log[i].call = "initGallery" /\ log[i].outside = <<"console.error">>

\* the configurations that reach the i-th element of doc: they select it
\* and it is below their maxItems
Reaching(doc, i) ==
    { k \in DOMAIN ANIMATION_CONFIG :
        LET selected == { j \in DOMAIN doc :
                            matches(ANIMATION_CONFIG[k].selector, doc[j]) }
        IN  /\ i \in selected
            /\ \/ ANIMATION_CONFIG[k].maxItems = 0
               \/ Cardinality({ j \in selected : j < i })
                      < ANIMATION_CONFIG[k].maxItems }

\* the attributes of the i-th element of doc once the first configuration
\* that reaches it has set its own
AttributesFromFirst(doc, i) ==
    IF Reaching(doc, i) = {} THEN doc[i].attrs
    ELSE LET k == CHOOSE x \in Reaching(doc, i) :
                      \A y \in Reaching(doc, i) : x <= y
             selected == { j \in DOMAIN doc :
                             matches(ANIMATION_CONFIG[k].selector, doc[j]) }
         IN  animationAttributes(ANIMATION_CONFIG[k],
                                 Cardinality({ j \in selected : j < i }))
                 @@ doc[i].attrs

\* C19: initAnimations changes no attribute of an element that has
\* data-aos; an element without it gets the attributes of the first
\* configuration, in declaration order, that reaches it; and after every
\* later call the elements are as they were after the first.
C19_AnimatedOnce ==
    /\ [][ Len(log') = Len(log) + 1 /\ Last(log').call = "initAnimations" =>
             /\ Len(Document') = Len(Document)
             /\ \A i \in DOMAIN Document :
                    IF "data-aos" \in DOMAIN Document[i].attrs
                    THEN Document'[i] = Document[i]
                    ELSE Document'[i] =
                             [Document[i] EXCEPT
                                 !.attrs = AttributesFromFirst(Document, i)]
          ]_vars
    /\ [](\A i, j \in AnimationInits : log[i].page = log[j].page)

\* two calls on a page where the second element is a section title and a
\* member card, behind another member card: it has the section title's
\* attributes, without the member card's delay
C19_Witness ==
    /\ Cardinality(AnimationInits) >= 2
    /\ Len(page) = 2
    /\ page[1].class = {"member-card"}
    /\ page[2].class = {"section-title", "member-card"}
    /\ page[1].attrs["data-aos"] = "fade-up"
    /\ DOMAIN page[2].attrs = {"data-aos", "data-aos-duration", "data-aos-once"}

\* the animation attributes of the elements of a document
AosAttributes(doc) == [i \in DOMAIN doc |-> doc[i].attrs]

\* C20: once initGallery and initAnimations have both run, in whatever
\* order and with whatever refresh behind them, the generated elements have
\* the animation attributes that initGallery followed by initAnimations
\* gives them.
C20_OrderIndependent ==
    GalleryInits # {} /\ AnimationInits # {} =>
        AosAttributes(Document)
            = AosAttributes(applyEach(ANIMATION_CONFIG, Document))

====
